---- MODULE Spec2Model ----
(***************************************************************************)
(* Model of the imputation-structure pipeline of                           *)
(* src/src/imputation/main.py: process_region (one region's gauge search,  *)
(* weighting, flattening and statistics) and ImputationManager.run (load,  *)
(* fan-out over a process pool, collection in completion order, one        *)
(* timestamped artifact per region).                                       *)
(*                                                                         *)
(* NearestGaugeFinder, WeightCalculator and DataLoader are imported by     *)
(* main.py but their modules are not part of the sources at hand; they are *)
(* modelled from the written specification (sections 4.1 and 4.2).         *)
(***************************************************************************)
EXTENDS Integers, Sequences, FiniteSets, TLC

VARIABLES
    pc,                  \* position of run(): idle, collecting, returned, raised
    n_processes,         \* self.n_processes
    n_processes_arg,     \* the constructor's n_processes argument (None when not given)
    fallback_to_nearest, \* WeightCalculator's policy for a point with no gauge within the cutoff
    region_input,        \* per region: what find_nearest does for it (raises, or its mappings)
    loaded,              \* emptiness of the two datasets loaded by the current run
    task,                \* per region: none, queued, running, done, collected
    future,              \* per region: the worker's future (exception or returned value)
    output_files,        \* run()'s result mapping region -> path
    files,               \* the output directory: path -> [content, writes]
    run_writes,          \* paths written by the current run
    now,                 \* wall clock, in whole seconds (strftime %Y%m%d_%H%M%S)
    runs,                \* number of run() calls started
    rp_stage,            \* position inside one process_region call
    rp_region,           \* its region argument
    rp_found,            \* what find_nearest returned to it
    rp_weighted,         \* weighted_mappings
    rp_df,               \* the record table of line 104
    rp_result,           \* the value returned
    gp_stage,            \* position inside one get_region_projection call
    gp_region_name,      \* its region_name argument
    gp_region_def,       \* its region_def argument (a dict: a function on its keys)
    gp_result            \* the value returned (None before the call returns)

orch_vars == <<pc, n_processes, n_processes_arg, region_input, loaded, task, future,
               output_files, files, run_writes, now, runs>>
rp_vars == <<rp_stage, rp_region, rp_found, rp_weighted, rp_df, rp_result>>
gp_vars == <<gp_stage, gp_region_name, gp_region_def, gp_result>>
vars == <<pc, n_processes, n_processes_arg, fallback_to_nearest, region_input, loaded, task, future,
          output_files, files, run_writes, now, runs,
          rp_stage, rp_region, rp_found, rp_weighted, rp_df, rp_result,
          gp_stage, gp_region_name, gp_region_def, gp_result>>

----------------------------------------------------------------------------
(* Bounds of the model *)

MaxCands == 2      \* candidate gauges per reference point
MaxClock == 2      \* seconds the wall clock may advance
MaxRuns == 2       \* successive run() calls
MaxCpu == 4        \* mp.cpu_count() ranges over 1..MaxCpu

(* Program constants: WeightCalculator(max_distance_meters=100000, power=2, min_weight=0.1) *)

max_distance_meters == 100000
power == 2
min_weight == <<1, 10>>

----------------------------------------------------------------------------
(* Optional values (None is the empty sequence) and exact rationals <<num, den>> *)

None == <<>>
Some(x) == <<x>>

RatLE(a, b) == a[1] * b[2] <= b[1] * a[2]
RatLT(a, b) == a[1] * b[2] < b[1] * a[2]

(* Python numbers do not wrap; products are saturated at SatCap so that the    *)
(* comparison against the floor can be decided for distances of 10^5 metres.  *)
SatCap == 2^30
SatMul(x, y) == IF y = 0 THEN 0 ELSE IF x > SatCap \div y THEN SatCap ELSE x * y

RECURSIVE SatPow(_, _)
SatPow(b, e) == IF e = 0 THEN 1 ELSE SatMul(SatPow(b, e - 1), b)

----------------------------------------------------------------------------
(* The data *)

Regions == {"east_coast", "west_coast"}

region_config ==
    [r \in Regions |->
        [name |-> IF r = "east_coast" THEN "East Coast" ELSE "West Coast",
         state_codes |-> IF r = "east_coast" THEN <<"FL", "GA">> ELSE <<"CA", "OR">>]]

Stations ==
    { [station_id |-> "8720218", station_name |-> "Mayport",   sub_region |-> None],
      [station_id |-> "8723214", station_name |-> "Virginia Key", sub_region |-> Some("")],
      [station_id |-> "8724580", station_name |-> "Key West",  sub_region |-> Some("south")] }

Points ==
    << [id |-> "p1", county_fips |-> "12086"],
       [id |-> "p2", county_fips |-> "12011"] >>

(* distance_meters samples: 0, 0.5, 2, the cutoff itself, and beyond the cutoff *)
Distances == { <<0, 1>>, <<1, 2>>, <<2, 1>>, <<100000, 1>>, <<150000, 1>> }

Candidate(s, d) ==
    [station_id |-> s.station_id, station_name |-> s.station_name,
     sub_region |-> s.sub_region, distance_meters |-> d]

(* RawMapping invariant: candidate list non-empty, sorted ascending by distance, *)
(* one entry per station.                                                        *)
CandLists ==
    UNION { { c \in [1..n -> {Candidate(s, d) : s \in Stations, d \in Distances}] :
                /\ \A i, j \in 1..n : i < j =>
                      /\ RatLE(c[i].distance_meters, c[j].distance_meters)
                      /\ c[i].station_id # c[j].station_id }
            : n \in 1..MaxCands }

RawMapping(p, c) ==
    [reference_point_id |-> p.id, county_fips |-> p.county_fips, mappings |-> c]

(* The reference points of a region, in table order *)
PointSeqs == { <<>>, <<Points[1]>>, <<Points[2]>>, <<Points[1], Points[2]>> }

(* find_nearest's possible results for the reference points ps *)
RawMappingListsFor(ps) ==
    { [i \in 1..Len(ps) |-> RawMapping(ps[i], f[i])] : f \in [1..Len(ps) -> CandLists] }

Found(m) == [raises |-> FALSE, mappings |-> m]
FinderRaises == [raises |-> TRUE, mappings |-> <<>>]

----------------------------------------------------------------------------
(* WeightCalculator.calculate_weights *)

WithinCutoff_NoCutoff(d) == TRUE

(* step 1: a gauge is dropped when distance_meters > max_distance_meters *)
WithinCutoff(d) == RatLE(d, <<max_distance_meters, 1>>)

(* 1 / distance ** power < min_weight, for distance = n/m > 0 *)
RawBelowFloor(d) ==
    SatMul(min_weight[2], SatPow(d[2], power)) < SatMul(min_weight[1], SatPow(d[1], power))

(* steps 3 and 4: max(min_weight, 1 / distance ** power), 1.0 at distance 0 *)
Weight(d) ==
    IF d[1] = 0 THEN <<1, 1>>
    ELSE IF RawBelowFloor(d) THEN min_weight
    ELSE <<SatPow(d[2], power), SatPow(d[1], power)>>

WithWeight(g) ==
    [station_id |-> g.station_id, station_name |-> g.station_name,
     sub_region |-> g.sub_region, distance_meters |-> g.distance_meters,
     weight |-> Weight(g.distance_meters)]

(* steps 1 and 2 for one candidate list (sorted ascending): the cutoff, then the *)
(* configured policy for a list the cutoff empties: keep the nearest gauge, or   *)
(* leave the point without gauges.                                               *)
KeptCandidates(cands, fallback) ==
    LET within == SelectSeq(cands, LAMBDA g : WithinCutoff(g.distance_meters))
    IN  IF within # <<>> THEN within
        ELSE IF fallback /\ cands # <<>> THEN <<cands[1]>>
        ELSE <<>>

calculate_weights(mappings, fallback) ==
    [i \in 1..Len(mappings) |->
        [reference_point_id |-> mappings[i].reference_point_id,
         county_fips |-> mappings[i].county_fips,
         mappings |-> LET kept == KeptCandidates(mappings[i].mappings, fallback)
                      IN  [j \in 1..Len(kept) |-> WithWeight(kept[j])]]]

----------------------------------------------------------------------------
(* process_region *)

NoneResult == [is_none |-> TRUE, records |-> <<>>]
DataFrame(recs) == [is_none |-> FALSE, records |-> recs]

MappingRecord(region, region_info, mapping, gauge) ==
    [reference_point_id |-> mapping.reference_point_id,
     county_fips |-> mapping.county_fips,
     region |-> region,
     region_name |-> region_info.name,
     station_id |-> gauge.station_id,
     station_name |-> gauge.station_name,
     sub_region |-> gauge.sub_region,
     distance_meters |-> gauge.distance_meters,
     weight |-> gauge.weight]

(* records.append placed after the inner loop: one record per mapping, its last gauge *)
RECURSIVE Flatten_AppendOutsideLoop(_, _, _)
Flatten_AppendOutsideLoop(region, region_info, weighted) ==
    IF weighted = <<>> THEN <<>>
    ELSE (IF Head(weighted).mappings = <<>> THEN <<>>
          ELSE <<MappingRecord(region, region_info, Head(weighted),
                               Head(weighted).mappings[Len(Head(weighted).mappings)])>>)
         \o Flatten_AppendOutsideLoop(region, region_info, Tail(weighted))

(* lines 89-102: for mapping in weighted_mappings: for gauge in mapping['mappings'] *)
RECURSIVE Flatten(_, _, _)
Flatten(region, region_info, weighted) ==
    IF weighted = <<>> THEN <<>>
    ELSE [j \in 1..Len(Head(weighted).mappings) |->
             MappingRecord(region, region_info, Head(weighted), Head(weighted).mappings[j])]
         \o Flatten(region, region_info, Tail(weighted))

(* line 120: sorted(df['sub_region'].unique()) compares the distinct values; *)
(* None and str do not compare (TypeError).                                  *)
StatsRaises(records) ==
    \E i, j \in 1..Len(records) :
        records[i].sub_region = None /\ records[j].sub_region # None

(* lines 107-135: logging only; the try block ends in return df *)
AfterStats(records) ==
    IF records # <<>> /\ StatsRaises(records) THEN NoneResult ELSE DataFrame(records)

ProcessRegion_NoEmptyGuard(region, region_info, found, fallback) ==
    IF found.raises THEN NoneResult
    ELSE AfterStats(Flatten(region, region_info, calculate_weights(found.mappings, fallback)))

(* lines 62-139 as one call *)
ProcessRegion(region, region_info, found, fallback) ==
    IF found.raises THEN NoneResult
    ELSE IF found.mappings = <<>> THEN NoneResult
    ELSE AfterStats(Flatten(region, region_info, calculate_weights(found.mappings, fallback)))

HasRows(df) == ~df.is_none /\ df.records # <<>>

----------------------------------------------------------------------------
(* ImputationManager *)

Max(a, b) == IF a >= b THEN a ELSE b

NProcesses_NoFloor(arg, cpu_count) ==
    IF arg # None /\ arg[1] # 0 THEN arg[1] ELSE cpu_count - 2

(* __init__, line 155: n_processes or max(1, mp.cpu_count() - 2) *)
NProcesses(arg, cpu_count) ==
    IF arg # None /\ arg[1] # 0 THEN arg[1] ELSE Max(1, cpu_count - 2)

CtorArgs == {None, Some(-1), Some(0), Some(1), Some(2)}

LoadFailed_BothEmpty(reference_points_empty, gauge_stations_empty) ==
    reference_points_empty /\ gauge_stations_empty

(* run, line 234: reference_points.empty or gauge_stations.empty *)
LoadFailed(reference_points_empty, gauge_stations_empty) ==
    reference_points_empty \/ gauge_stations_empty

Path(region, timestamp) == [region |-> region, timestamp |-> timestamp]

SaveImputationStructure_TwoRows(df, region, timestamp) ==
    IF df.is_none \/ Len(df.records) < 2 THEN None ELSE Some(Path(region, timestamp))

(* save_imputation_structure: None for a missing or empty table, else the path *)
(* imputation_structure_{region}_{timestamp}.parquet it wrote                  *)
SaveImputationStructure(df, region, timestamp) ==
    IF df.is_none \/ df.records = <<>> THEN None ELSE Some(Path(region, timestamp))

(* df.to_parquet(output_path): creates or replaces the file *)
WriteFile(fs, path, content) ==
    (path :> [content |-> content,
              writes |-> IF path \in DOMAIN fs THEN fs[path].writes + 1 ELSE 1]) @@ fs

RecordOutput_Replace(out, region, path) == (region :> path)

(* line 262: output_files[region] = output_path *)
RecordOutput(out, region, path) == (region :> path) @@ out

CollectOutcome_NoCatch(fut, region, timestamp) ==
    [raised |-> fut.exception,
     output_path |-> IF fut.exception \/ fut.df.is_none THEN None
                     ELSE SaveImputationStructure(fut.df, region, timestamp)]

(* lines 257-264: future.result() re-raises the worker's exception, which the *)
(* except clause logs; a None result is skipped; otherwise the table is saved *)
CollectOutcome(fut, region, timestamp) ==
    [raised |-> FALSE,
     output_path |-> IF fut.exception \/ fut.df.is_none THEN None
                     ELSE SaveImputationStructure(fut.df, region, timestamp)]

NoFuture == [exception |-> FALSE, df |-> NoneResult]

StationWith(sub) == CHOOSE s \in Stations : s.sub_region = sub

(* What find_nearest does for a region of the batch *)
ScenarioInputs ==
    { FinderRaises,
      Found(<<>>),
      Found(<<RawMapping(Points[1], <<Candidate(StationWith(Some("south")), <<2, 1>>)>>)>>),
      Found(<<RawMapping(Points[1], <<Candidate(StationWith(Some("south")), <<150000, 1>>)>>)>>),
      Found(<<RawMapping(Points[1], <<Candidate(StationWith(None), <<0, 1>>),
                                      Candidate(StationWith(Some("south")), <<1, 2>>)>>)>>) }

(* what process_region yields for region r of the batch *)
Expected(r) == ProcessRegion(r, region_config[r], region_input[r], fallback_to_nearest)

GpIdle ==
    /\ gp_stage = "unused"
    /\ gp_region_name = "east_coast"
    /\ gp_region_def = <<>>
    /\ gp_result = None

RpIdle ==
    /\ rp_stage = "unused"
    /\ rp_region = "east_coast"
    /\ rp_found = Found(<<>>)
    /\ rp_weighted = <<>>
    /\ rp_df = <<>>
    /\ rp_result = NoneResult

Init ==
    /\ pc = "idle"
    /\ \E a \in CtorArgs, c \in 1..MaxCpu :
        /\ n_processes_arg = a
        /\ n_processes = NProcesses(a, c)
    /\ fallback_to_nearest \in BOOLEAN
    /\ region_input \in [Regions -> ScenarioInputs]
    /\ loaded = [reference_points_empty |-> FALSE, gauge_stations_empty |-> FALSE]
    /\ task = [r \in Regions |-> "none"]
    /\ future = [r \in Regions |-> NoFuture]
    /\ output_files = <<>>
    /\ files = <<>>
    /\ run_writes = {}
    /\ now = 0
    /\ runs = 0
    /\ RpIdle
    /\ GpIdle

(* lines 228-236: a new call of run() whose load yields an empty dataset *)
RunLoadFails ==
    /\ pc \in {"idle", "returned", "raised"}
    /\ runs < MaxRuns
    /\ \E re \in BOOLEAN, ge \in BOOLEAN :
        /\ LoadFailed(re, ge)
        /\ loaded' = [reference_points_empty |-> re, gauge_stations_empty |-> ge]
    /\ pc' = "returned"
    /\ runs' = runs + 1
    /\ output_files' = <<>>
    /\ task' = [r \in Regions |-> "none"]
    /\ future' = [r \in Regions |-> NoFuture]
    /\ run_writes' = {}
    /\ UNCHANGED <<n_processes, n_processes_arg, fallback_to_nearest, region_input, files, now>>
    /\ UNCHANGED rp_vars
    /\ UNCHANGED gp_vars

(* lines 228-239: ProcessPoolExecutor(max_workers) raises ValueError for max_workers <= 0 *)
RunPoolError ==
    /\ pc \in {"idle", "returned", "raised"}
    /\ runs < MaxRuns
    /\ n_processes <= 0
    /\ \E re \in BOOLEAN, ge \in BOOLEAN :
        /\ ~LoadFailed(re, ge)
        /\ loaded' = [reference_points_empty |-> re, gauge_stations_empty |-> ge]
    /\ pc' = "raised"
    /\ runs' = runs + 1
    /\ output_files' = <<>>
    /\ task' = [r \in Regions |-> "none"]
    /\ future' = [r \in Regions |-> NoFuture]
    /\ run_writes' = {}
    /\ UNCHANGED <<n_processes, n_processes_arg, fallback_to_nearest, region_input, files, now>>
    /\ UNCHANGED rp_vars
    /\ UNCHANGED gp_vars

(* lines 228-250: both datasets loaded, one task submitted per configured region *)
RunDispatch ==
    /\ pc \in {"idle", "returned", "raised"}
    /\ runs < MaxRuns
    /\ n_processes > 0
    /\ \E re \in BOOLEAN, ge \in BOOLEAN :
        /\ ~LoadFailed(re, ge)
        /\ loaded' = [reference_points_empty |-> re, gauge_stations_empty |-> ge]
    /\ pc' = "collecting"
    /\ runs' = runs + 1
    /\ output_files' = <<>>
    /\ task' = [r \in Regions |-> "queued"]
    /\ future' = [r \in Regions |-> NoFuture]
    /\ run_writes' = {}
    /\ UNCHANGED <<n_processes, n_processes_arg, fallback_to_nearest, region_input, files, now>>
    /\ UNCHANGED rp_vars
    /\ UNCHANGED gp_vars

Running == {r \in Regions : task[r] = "running"}

(* the pool hands a queued task to a free worker process *)
WorkerStart(r) ==
    /\ task[r] = "queued"
    /\ Cardinality(Running) < n_processes
    /\ task' = [task EXCEPT ![r] = "running"]
    /\ UNCHANGED <<pc, n_processes, n_processes_arg, fallback_to_nearest, region_input, loaded, future,
                   output_files, files, run_writes, now, runs>>
    /\ UNCHANGED rp_vars
    /\ UNCHANGED gp_vars

(* the worker runs process_region and its return value becomes the future's result *)
WorkerReturns(r) ==
    /\ task[r] = "running"
    /\ task' = [task EXCEPT ![r] = "done"]
    /\ future' = [future EXCEPT ![r] =
                    [exception |-> FALSE,
                     df |-> ProcessRegion(r, region_config[r], region_input[r],
                                          fallback_to_nearest)]]
    /\ UNCHANGED <<pc, n_processes, n_processes_arg, fallback_to_nearest, region_input, loaded,
                   output_files, files, run_writes, now, runs>>
    /\ UNCHANGED rp_vars
    /\ UNCHANGED gp_vars

(* the worker process dies or its result cannot be sent back: the future holds an exception *)
WorkerBreaks(r) ==
    /\ task[r] = "running"
    /\ task' = [task EXCEPT ![r] = "done"]
    /\ future' = [future EXCEPT ![r] = [exception |-> TRUE, df |-> NoneResult]]
    /\ UNCHANGED <<pc, n_processes, n_processes_arg, fallback_to_nearest, region_input, loaded,
                   output_files, files, run_writes, now, runs>>
    /\ UNCHANGED rp_vars
    /\ UNCHANGED gp_vars

(* lines 253-264: one iteration of the as_completed loop *)
Collect(r) ==
    /\ pc = "collecting"
    /\ task[r] = "done"
    /\ task' = [task EXCEPT ![r] = "collected"]
    /\ LET out == CollectOutcome(future[r], r, now)
       IN  IF out.raised
           THEN /\ pc' = "raised"
                /\ UNCHANGED <<output_files, files, run_writes>>
           ELSE /\ pc' = pc
                /\ IF out.output_path # None
                   THEN /\ files' = WriteFile(files, out.output_path[1], future[r].df.records)
                        /\ output_files' = RecordOutput(output_files, r, out.output_path[1])
                        /\ run_writes' = run_writes \cup {out.output_path[1]}
                   ELSE UNCHANGED <<output_files, files, run_writes>>
    /\ UNCHANGED <<n_processes, n_processes_arg, fallback_to_nearest, region_input, loaded, future, now, runs>>
    /\ UNCHANGED rp_vars
    /\ UNCHANGED gp_vars

AllCollected_FirstResult(t) == \E r \in Regions : t[r] = "collected"

(* lines 253-255: as_completed yields every future of future_to_region once; *)
(* the loop ends when it has yielded them all                                *)
AllCollected(t) == \A r \in Regions : t[r] = "collected"

(* line 266, after the executor's with block: every future has been collected *)
RunReturn ==
    /\ pc = "collecting"
    /\ AllCollected(task)
    /\ pc' = "returned"
    /\ UNCHANGED <<n_processes, n_processes_arg, fallback_to_nearest, region_input, loaded, task, future,
                   output_files, files, run_writes, now, runs>>
    /\ UNCHANGED rp_vars
    /\ UNCHANGED gp_vars

(* datetime.now() advances between any two steps *)
Tick ==
    /\ now < MaxClock
    /\ now' = now + 1
    /\ UNCHANGED <<pc, n_processes, n_processes_arg, fallback_to_nearest, region_input, loaded, task, future,
                   output_files, files, run_writes, runs>>
    /\ UNCHANGED rp_vars
    /\ UNCHANGED gp_vars

Next ==
    \/ RunLoadFails
    \/ RunPoolError
    \/ RunDispatch
    \/ \E r \in Regions : WorkerStart(r)
    \/ \E r \in Regions : WorkerReturns(r)
    \/ \E r \in Regions : WorkerBreaks(r)
    \/ \E r \in Regions : Collect(r)
    \/ RunReturn
    \/ Tick

Spec == Init /\ [][Next]_vars

(* The pool starts a queued task when a process is free, every started task  *)
(* finishes (returns or breaks), and run()'s own loop keeps going.           *)
Fairness ==
    /\ \A r \in Regions : WF_vars(WorkerStart(r))
    /\ \A r \in Regions : WF_vars(WorkerReturns(r) \/ WorkerBreaks(r))
    /\ \A r \in Regions : WF_vars(Collect(r))
    /\ WF_vars(RunReturn)

(* The runs whose termination is checked: a region either yields rows or fails *)
(* inside process_region (a worker may break besides); the clock stands still, *)
(* since no step of run() waits on it.                                         *)
InitFair ==
    /\ Init
    /\ fallback_to_nearest
    /\ \A r \in Regions : region_input[r].raises \/ HasRows(Expected(r))

NextFair ==
    \/ RunLoadFails
    \/ RunPoolError
    \/ RunDispatch
    \/ \E r \in Regions : WorkerStart(r)
    \/ \E r \in Regions : WorkerReturns(r)
    \/ \E r \in Regions : WorkerBreaks(r)
    \/ \E r \in Regions : Collect(r)
    \/ RunReturn

FairSpec == InitFair /\ [][NextFair]_vars /\ Fairness

----------------------------------------------------------------------------
(* One call of process_region, step by step *)

OrchIdle ==
    /\ pc = "idle"
    /\ n_processes_arg = Some(1)
    /\ n_processes = 1
    /\ region_input = [r \in Regions |-> Found(<<>>)]
    /\ loaded = [reference_points_empty |-> FALSE, gauge_stations_empty |-> FALSE]
    /\ task = [r \in Regions |-> "none"]
    /\ future = [r \in Regions |-> NoFuture]
    /\ output_files = <<>>
    /\ files = <<>>
    /\ run_writes = {}
    /\ now = 0
    /\ runs = 0

InitRegion ==
    /\ OrchIdle
    /\ GpIdle
    /\ fallback_to_nearest \in BOOLEAN
    /\ rp_stage = "start"
    /\ rp_region \in Regions
    /\ \/ rp_found = FinderRaises
       \/ \E ps \in PointSeqs : \E m \in RawMappingListsFor(ps) : rp_found = Found(m)
    /\ rp_weighted = <<>>
    /\ rp_df = <<>>
    /\ rp_result = NoneResult

(* lines 75-79 raise; lines 137-139 turn the exception into None *)
PR_FinderRaises ==
    /\ rp_stage = "start"
    /\ rp_found.raises
    /\ rp_stage' = "returned"
    /\ rp_result' = NoneResult
    /\ UNCHANGED <<rp_region, rp_found, rp_weighted, rp_df, fallback_to_nearest>>
    /\ UNCHANGED orch_vars
    /\ UNCHANGED gp_vars

(* lines 81-83: if not mappings: return None *)
PR_NoMappings ==
    /\ rp_stage = "start"
    /\ ~rp_found.raises
    /\ rp_found.mappings = <<>>
    /\ rp_stage' = "returned"
    /\ rp_result' = NoneResult
    /\ UNCHANGED <<rp_region, rp_found, rp_weighted, rp_df, fallback_to_nearest>>
    /\ UNCHANGED orch_vars
    /\ UNCHANGED gp_vars

(* line 86 *)
PR_CalculateWeights ==
    /\ rp_stage = "start"
    /\ ~rp_found.raises
    /\ rp_found.mappings # <<>>
    /\ rp_stage' = "weighted"
    /\ rp_weighted' = calculate_weights(rp_found.mappings, fallback_to_nearest)
    /\ UNCHANGED <<rp_region, rp_found, rp_df, rp_result, fallback_to_nearest>>
    /\ UNCHANGED orch_vars
    /\ UNCHANGED gp_vars

(* lines 89-104 *)
PR_Flatten ==
    /\ rp_stage = "weighted"
    /\ rp_stage' = "flattened"
    /\ rp_df' = Flatten(rp_region, region_config[rp_region], rp_weighted)
    /\ UNCHANGED <<rp_region, rp_found, rp_weighted, rp_result, fallback_to_nearest>>
    /\ UNCHANGED orch_vars
    /\ UNCHANGED gp_vars

(* lines 107-139: the statistics, then return df, or None when they raise *)
PR_Statistics ==
    /\ rp_stage = "flattened"
    /\ rp_stage' = "returned"
    /\ rp_result' = AfterStats(rp_df)
    /\ UNCHANGED <<rp_region, rp_found, rp_weighted, rp_df, fallback_to_nearest>>
    /\ UNCHANGED orch_vars
    /\ UNCHANGED gp_vars

NextRegion ==
    \/ PR_FinderRaises
    \/ PR_NoMappings
    \/ PR_CalculateWeights
    \/ PR_Flatten
    \/ PR_Statistics

SpecRegion == InitRegion /\ [][NextRegion]_vars

(* the stepwise call and the one-step call used by the workers agree *)
StepwiseAgrees ==
    rp_stage = "returned" =>
        rp_result = ProcessRegion(rp_region, region_config[rp_region], rp_found,
                                  fallback_to_nearest)

----------------------------------------------------------------------------
(* get_region_projection (src/src/preprocessing/coastal_points.py) *)

AlaskaAlbers ==
    "+proj=aea +lat_1=55 +lat_2=65 +lat_0=50 +lon_0=-154 +x_0=0 +y_0=0 +ellps=GRS80 +datum=NAD83 +units=m +no_defs"

WestCoastAlbers ==
    "+proj=aea +lat_1=34 +lat_2=45.5 +lat_0=40 +lon_0=-120 +x_0=0 +y_0=0 +ellps=GRS80 +datum=NAD83 +units=m +no_defs"

ConusAlbers ==
    "+proj=aea +lat_1=20 +lat_2=60 +lat_0=40 +lon_0=-96 +x_0=0 +y_0=0 +ellps=GRS80 +datum=NAD83 +units=m +no_defs"

(* name rules consulted before the config-defined projection *)
get_region_projection_NameFirst(region_name, region_def) ==
    IF region_name = "alaska" THEN AlaskaAlbers
    ELSE IF region_name \in {"west_coast", "pacific_islands"} THEN WestCoastAlbers
    ELSE IF "projection" \in DOMAIN region_def THEN region_def["projection"]
    ELSE ConusAlbers

(* lines 44-66 *)
get_region_projection(region_name, region_def) ==
    IF "projection" \in DOMAIN region_def THEN region_def["projection"]
    ELSE IF region_name = "alaska" THEN AlaskaAlbers
    ELSE IF region_name \in {"west_coast", "pacific_islands"} THEN WestCoastAlbers
    ELSE ConusAlbers

(* region names of region_mappings.yaml and others; names are case-sensitive *)
RegionNames ==
    {"alaska", "Alaska", "west_coast", "pacific_islands", "hawaii",
     "east_coast", "gulf_coast", ""}

ConfigKeys == {"name", "state_codes", "projection"}
ConfigValues == {"EPSG:3338", "Alaska", AlaskaAlbers}

(* region definitions: dicts holding any of the keys *)
RegionDefs == UNION { [K -> ConfigValues] : K \in SUBSET ConfigKeys }

InitProjection ==
    /\ OrchIdle
    /\ RpIdle
    /\ fallback_to_nearest = FALSE
    /\ gp_stage = "start"
    /\ gp_region_name \in RegionNames
    /\ gp_region_def \in RegionDefs
    /\ gp_result = None

(* one call of get_region_projection, from entry to return *)
GP_Call ==
    /\ gp_stage = "start"
    /\ gp_stage' = "returned"
    /\ gp_result' = Some(get_region_projection(gp_region_name, gp_region_def))
    /\ UNCHANGED <<gp_region_name, gp_region_def, fallback_to_nearest>>
    /\ UNCHANGED orch_vars
    /\ UNCHANGED rp_vars

NextProjection == GP_Call

SpecProjection == InitProjection /\ [][NextProjection]_vars

----------------------------------------------------------------------------
(* Properties of run() *)

RunCompleted == pc = "returned" /\ \A r \in Regions : task[r] = "collected"

(* an exception raised inside process_region (and turned into None there) *)
RaisedInside(r) ==
    \/ region_input[r].raises
    \/ /\ region_input[r].mappings # <<>>
       /\ StatsRaises(Flatten(r, region_config[r],
                              calculate_weights(region_input[r].mappings, fallback_to_nearest)))

FailedRegion(r) == future[r].exception \/ RaisedInside(r)

SucceededWithRows(r) == ~future[r].exception /\ HasRows(future[r].df)

Persisted(r, records) ==
    /\ r \in DOMAIN output_files
    /\ output_files[r].region = r
    /\ output_files[r] \in run_writes
    /\ output_files[r] \in DOMAIN files
    /\ files[output_files[r]].content = records

(* C1: a region's failure never aborts the batch. run() raises only before any    *)
(* task exists; once the tasks are collected it has returned, no failed region    *)
(* (exception inside process_region, or exception held by its future) has a key,  *)
(* and every region that succeeded with rows has its artifact written and its key *)
(* present.                                                                       *)
C1_FailureIsolated ==
    /\ pc = "raised" => \A r \in Regions : task[r] = "none"
    /\ RunCompleted =>
          \A r \in Regions :
             /\ FailedRegion(r) => r \notin DOMAIN output_files
             /\ SucceededWithRows(r) => Persisted(r, future[r].df.records)

C1_Witness ==
    /\ RunCompleted
    /\ \E r1, r2, r3 \in Regions :
          /\ future[r1].exception \/ region_input[r1].raises
          /\ r1 \notin DOMAIN output_files
          /\ SucceededWithRows(r2) /\ r2 \in DOMAIN output_files
          /\ r3 = r1

(* C2: when the loaded reference points or the loaded gauge stations are empty,  *)
(* run() has returned (not raised) an empty mapping, no region task exists and   *)
(* the run has written no artifact.                                              *)
C2_FailFastOnEmptyInput ==
    (loaded.reference_points_empty \/ loaded.gauge_stations_empty) =>
        /\ pc = "returned"
        /\ output_files = <<>>
        /\ \A r \in Regions : task[r] = "none"
        /\ run_writes = {}

C2_Witness ==
    /\ pc = "returned"
    /\ loaded.gauge_stations_empty
    /\ ~loaded.reference_points_empty
    /\ n_processes <= 0
    /\ runs = 1

(* C3: the output of a completed run is a function of the regions' own outcomes  *)
(* alone, whatever the order of completion and collection: its keys are exactly  *)
(* the regions whose future holds a table with rows, and each artifact holds     *)
(* exactly what process_region yields for that region's own input.               *)
C3_OrderInvariant ==
    RunCompleted =>
        /\ DOMAIN output_files =
              {r \in Regions : ~future[r].exception /\ HasRows(Expected(r))}
        /\ \A r \in DOMAIN output_files :
              /\ output_files[r].region = r
              /\ output_files[r] \in DOMAIN files
              /\ files[output_files[r]].content = Expected(r).records

(* both regions saved, the one submitted last collected a second earlier *)
C3_Witness ==
    /\ RunCompleted
    /\ DOMAIN output_files = Regions
    /\ output_files["west_coast"].timestamp < output_files["east_coast"].timestamp

(* C4 as stated: a collected region whose worker returned a non-None result has *)
(* a key in the result mapping.                                                  *)
C4_NonNoneHasKey ==
    \A r \in Regions :
        (pc = "collecting" /\ task[r] = "collected"
            /\ ~future[r].exception /\ ~future[r].df.is_none)
        => r \in DOMAIN output_files

(* C4 amended: a collected region whose worker returned a table with at least   *)
(* one row has its table persisted as an artifact of this run and its key maps  *)
(* to that artifact.                                                             *)
C4_NonEmptyPersisted ==
    \A r \in Regions :
        (pc \in {"collecting", "returned"} /\ task[r] = "collected" /\ SucceededWithRows(r))
        => Persisted(r, future[r].df.records)

C4_Witness ==
    \E r \in Regions :
        /\ pc = "collecting"
        /\ task[r] = "collected"
        /\ SucceededWithRows(r)
        /\ r \in DOMAIN output_files

(* C5: a region for which the gauge finder yields no mappings: process_region   *)
(* returns None (no exception), the region never gets a key, and the other      *)
(* regions that succeed with rows still get theirs.                              *)
C5_NoMappingsSkipped ==
    \A r \in Regions :
        region_input[r] = Found(<<>>) =>
            /\ (task[r] \in {"done", "collected"} /\ ~future[r].exception)
                  => future[r].df.is_none
            /\ r \notin DOMAIN output_files
            /\ RunCompleted =>
                  \A q \in Regions \ {r} :
                      SucceededWithRows(q) => Persisted(q, future[q].df.records)

C5_Witness ==
    /\ RunCompleted
    /\ \E r, q \in Regions :
          /\ region_input[r] = Found(<<>>)
          /\ ~future[r].exception
          /\ future[r].df.is_none
          /\ r \notin DOMAIN output_files
          /\ q \in DOMAIN output_files

(* C6: no artifact is ever written twice: every file of the output directory    *)
(* has been the target of exactly one save.                                      *)
C6_NeverOverwritten ==
    \A p \in DOMAIN files : files[p].writes = 1

----------------------------------------------------------------------------
(* Properties of process_region and calculate_weights *)

BeyondCutoff(d) == RatLT(<<max_distance_meters, 1>>, d)

(* the gauges of all weighted mappings *)
WeightedGauges ==
    UNION { {rp_weighted[i].mappings[j] : j \in 1..Len(rp_weighted[i].mappings)}
            : i \in 1..Len(rp_weighted) }

(* C7: the statistics step does not affect the result: whenever process_region  *)
(* got as far as building the record table, it returns exactly that table.       *)
C7_StatisticsKeepResult ==
    (rp_stage = "returned" /\ ~rp_found.raises /\ rp_found.mappings # <<>>)
        => rp_result = DataFrame(rp_df)

(* C8: every weight of a gauge within the cutoff lies in [min_weight, 1.0].     *)
C8_WeightInRange ==
    \A g \in WeightedGauges :
        ~BeyondCutoff(g.distance_meters) =>
            /\ RatLE(min_weight, g.weight)
            /\ RatLE(g.weight, <<1, 1>>)

C10_WeightMonotone ==
    \A g1, g2 \in WeightedGauges :
        (/\ ~BeyondCutoff(g1.distance_meters)
         /\ ~BeyondCutoff(g2.distance_meters)
         /\ RatLE(g1.distance_meters, g2.distance_meters))
        => RatLE(g2.weight, g1.weight)

(* number of records that precede those of the i-th weighted mapping *)
RECURSIVE RecordsBefore(_)
RecordsBefore(i) ==
    IF i <= 1 THEN 0 ELSE RecordsBefore(i - 1) + Len(rp_weighted[i - 1].mappings)

(* C11: the record table holds exactly one record per (reference point,         *)
(* candidate gauge) pair, in mapping order then candidate order: its length is  *)
(* the sum of the candidate-list lengths, and the record of the j-th gauge of   *)
(* the i-th mapping carries that point's id and county, that gauge's station    *)
(* id, name, sub-region, distance and weight unchanged, and the region's id     *)
(* and display name.                                                             *)
C11_OneRecordPerPair ==
    rp_stage \in {"flattened", "returned"} =>
        /\ Len(rp_df) = RecordsBefore(Len(rp_weighted) + 1)
        /\ \A i \in 1..Len(rp_weighted) :
              \A j \in 1..Len(rp_weighted[i].mappings) :
                 LET rec == rp_df[RecordsBefore(i) + j]
                     gauge == rp_weighted[i].mappings[j]
                 IN  /\ rec.reference_point_id = rp_weighted[i].reference_point_id
                     /\ rec.county_fips = rp_weighted[i].county_fips
                     /\ rec.station_id = gauge.station_id
                     /\ rec.station_name = gauge.station_name
                     /\ rec.sub_region = gauge.sub_region
                     /\ rec.distance_meters = gauge.distance_meters
                     /\ rec.weight = gauge.weight
                     /\ rec.region = rp_region
                     /\ rec.region_name = region_config[rp_region].name

C11_Witness ==
    /\ rp_stage = "flattened"
    /\ Len(rp_weighted) = 2
    /\ Len(rp_weighted[1].mappings) = 2
    /\ Len(rp_weighted[2].mappings) = 1
    /\ Len(rp_df) = 3
    /\ rp_df[3].reference_point_id = "p2"
    /\ rp_df[1].station_id # rp_df[2].station_id

(* C12 as stated: the pool size is at least 1 whatever the constructor got, a   *)
(* dispatching run has one task per configured region, and never more tasks run *)
(* than the pool size.                                                          *)
C12_PoolAtLeastOne ==
    /\ n_processes >= 1
    /\ pc = "collecting" => \A r \in Regions : task[r] # "none"
    /\ Cardinality(Running) <= n_processes

(* C12 amended: the pool size is at least 1 when n_processes is not given, is 0 *)
(* or is positive (a negative argument is kept as it is, and run() then raises  *)
(* when it builds the pool, with no task dispatched); a dispatching run has one *)
(* task per configured region, tasks exist only for a pool size of at least 1,  *)
(* and never more tasks run than the pool size.                                 *)
C12_PoolBounded ==
    /\ (n_processes_arg = None \/ n_processes_arg[1] >= 0) => n_processes >= 1
    /\ (n_processes_arg # None /\ n_processes_arg[1] > 0) => n_processes = n_processes_arg[1]
    /\ n_processes < 1 => /\ \A r \in Regions : task[r] = "none"
                          /\ pc \in {"idle", "returned", "raised"}
    /\ pc = "collecting" => \A r \in Regions : task[r] # "none"
    /\ Cardinality(Running) <= Max(n_processes, 0)

(* the default pool of one process is full while another task waits *)
C12_Witness ==
    /\ n_processes_arg = None
    /\ n_processes = 1
    /\ pc = "collecting"
    /\ Cardinality(Running) = 1
    /\ \E r \in Regions : task[r] = "queued"

(* C13: a run that has dispatched its tasks returns, given that every started   *)
(* task finishes; it returns only once every task has been collected; and a     *)
(* collected task is never collected again within the run (it stays collected   *)
(* until a later call of run() replaces the tasks).                             *)
C13_AllCollectedBeforeReturn ==
    /\ [](pc = "returned" => \A r \in Regions : task[r] \in {"none", "collected"})
    /\ [][\A r \in Regions :
             (task[r] = "collected" /\ runs' = runs) => task'[r] = "collected"]_vars
    /\ [][pc = "collecting" => pc' \in {"collecting", "returned"}]_vars
    /\ (pc = "collecting") ~> (pc = "returned")

(* a run has returned after collecting a finished and a failed task *)
C13_Witness ==
    /\ pc = "returned"
    /\ \A r \in Regions : task[r] = "collected"
    /\ \E r, q \in Regions : future[r].exception /\ ~future[q].exception

(* C14: get_region_projection always returns a projection; a 'projection' key  *)
(* of the region definition wins over every name rule; without it 'alaska'      *)
(* gets the Alaska Albers projection, 'west_coast' and 'pacific_islands' the    *)
(* West Coast/Pacific Albers projection, and every other name the CONUS Albers  *)
(* projection.                                                                   *)
C14_ProjectionCascade ==
    /\ gp_stage = "start" => ENABLED GP_Call
    /\ gp_stage = "returned" =>
          /\ gp_result # None
          /\ "projection" \in DOMAIN gp_region_def
                => gp_result = Some(gp_region_def["projection"])
          /\ ("projection" \notin DOMAIN gp_region_def /\ gp_region_name = "alaska")
                => gp_result = Some(AlaskaAlbers)
          /\ ("projection" \notin DOMAIN gp_region_def
                /\ gp_region_name \in {"west_coast", "pacific_islands"})
                => gp_result = Some(WestCoastAlbers)
          /\ ("projection" \notin DOMAIN gp_region_def
                /\ gp_region_name \notin {"alaska", "west_coast", "pacific_islands"})
                => gp_result = Some(ConusAlbers)

(* a config-defined projection given for a region that has a name rule *)
C14_Witness ==
    /\ gp_stage = "returned"
    /\ gp_region_name = "alaska"
    /\ "projection" \in DOMAIN gp_region_def
    /\ gp_region_def["projection"] = "EPSG:3338"
    /\ gp_result = Some("EPSG:3338")

====
